---- MODULE Spec2Model ----
(***************************************************************************)
(* Model of the instance launch pipeline of quantum_launcher_backend       *)
(* (instance/instance_launch.rs): launch_wrapped / launch and the          *)
(* functions they call.  Strings are TLA+ strings, handled character by    *)
(* character; a path is the string of its components joined by "/".        *)
(***************************************************************************)
EXTENDS Naturals, Sequences, FiniteSets, TLC

(***************************************************************************)
(* Bounds of the model.                                                    *)
(***************************************************************************)
\* launch_wrapped is called at most this many times in one behaviour.
MaxLaunches == 2

(***************************************************************************)
(* Strings.                                                                *)
(***************************************************************************)
\* The index of the first match of pat in s at or after i, 0 when there is none.
RECURSIVE find_from(_, _, _)
find_from(s, pat, i) ==
    IF i + Len(pat) - 1 > Len(s) THEN 0
    ELSE IF SubSeq(s, i, i + Len(pat) - 1) = pat THEN i
    ELSE find_from(s, pat, i + 1)

\* str::contains(pat) for a non-empty pattern.
contains(s, pat) == find_from(s, pat, 1) # 0

\* str::replace(from, to): every non-overlapping match, left to right.
RECURSIVE str_replace(_, _, _)
str_replace(s, from, to) ==
    LET i == find_from(s, from, 1)
    IN  IF i = 0 THEN s
        ELSE SubSeq(s, 1, i - 1) \o to
               \o str_replace(SubSeq(s, i + Len(from), Len(s)), from, to)

\* str::split(' '): the pieces between single spaces, empty pieces kept.
RECURSIVE split_space(_)
split_space(s) ==
    LET i == find_from(s, " ", 1)
    IN  IF i = 0 THEN <<s>>
        ELSE <<SubSeq(s, 1, i - 1)>> \o split_space(SubSeq(s, i + 1, Len(s)))

\* A mutant of replace_var: only the first match is replaced (replacen(.., 1)).
replace_var_first_only(string, var, value) ==
    LET pat == "${" \o var \o "}"
        i == find_from(string, pat, 1)
    IN  IF i = 0 THEN string
        ELSE SubSeq(string, 1, i - 1) \o value
               \o SubSeq(string, i + Len(pat), Len(string))

\* fn replace_var: *string = string.replace(&format!("${{{}}}", var), value)
replace_var(string, var, value) ==
    str_replace(string, "${" \o var \o "}", value)

(***************************************************************************)
(* Option values.                                                          *)
(***************************************************************************)
None == [some |-> FALSE]
Some(x) == [some |-> TRUE, v |-> x]

(***************************************************************************)
(* Paths.  The character BadByte stands for a byte sequence that is not    *)
(* valid Unicode: a path holding it has no native string form.             *)
(***************************************************************************)
BadByte == "~"

\* Path::join: an absolute second path replaces the first.
join(a, b) ==
    IF Len(b) > 0 /\ SubSeq(b, 1, 1) = "/" THEN b ELSE a \o "/" \o b

\* Path::to_str: None when the path is not valid Unicode.
to_str(p) == IF contains(p, BadByte) THEN None ELSE Some(p)

\* Path::parent, "" being the root (which always exists).
RECURSIVE parent(_)
parent(p) ==
    IF Len(p) = 0 THEN ""
    ELSE IF SubSeq(p, Len(p), Len(p)) = "/" THEN SubSeq(p, 1, Len(p) - 1)
    ELSE parent(SubSeq(p, 1, Len(p) - 1))

\* The path and its ancestors below the root, topmost first.
RECURSIVE ancestors(_)
ancestors(p) == IF p = "" THEN <<>> ELSE Append(ancestors(parent(p)), p)

\* Whether q lies strictly below p.
below(p, q) == Len(q) > Len(p) + 1 /\ SubSeq(q, 1, Len(p) + 1) = p \o "/"

\* The part of q after the prefix p and its "/".
relative(p, q) == SubSeq(q, Len(p) + 2, Len(q))

(***************************************************************************)
(* State.                                                                  *)
(***************************************************************************)
VARIABLES
    pc,              \* position of the running launch, "idle" between launches
    launches,        \* number of launch_wrapped calls so far
    username,        \* argument of launch
    instance_name,   \* argument of launch
    launcher_dir,    \* what file_utils::get_launcher_dir() returns
    dirs,            \* file system: the directories
    files,           \* file system: plain files, path -> content
    docs,            \* file system: JSON documents, path -> [ok, v]
    config_json,     \* launch: let config_json
    version_json,    \* launch: let version_json
    fabric_json,     \* launch: let fabric_json (an Option)
    game_arguments,  \* get_arguments: let mut game_arguments
    arg_i,           \* get_arguments: index of the argument being expanded
    java_arguments,  \* launch: let mut java_arguments
    copy_stack,      \* copy_dir_recursive: the frames of the recursion
    result,          \* what launch returned
    wrapped,         \* what launch_wrapped returned
    child,           \* the spawned process (an Option): program and arguments
    start,           \* history: the file system when this launch began
    orig_legacy,     \* history: the legacy asset files of the initial state
    copy_ok,         \* history: copy_dir_recursive returned Ok in this launch
    migrated,        \* history: migrate_to_new_assets_path returned Ok in this launch
    fs_accessed,     \* history: this launch has made a file system call
    past             \* history: the Java arguments of the finished launches

vars == <<pc, launches, username, instance_name, launcher_dir, dirs, files, docs,
          config_json, version_json, fabric_json, game_arguments, arg_i,
          java_arguments, copy_stack, result, wrapped, child, start, orig_legacy,
          copy_ok, migrated, fs_accessed, past>>

\* What a launch never changes.
inputs == <<username, instance_name, launcher_dir, docs, orig_legacy, launches, past>>

(***************************************************************************)
(* The file system.                                                        *)
(***************************************************************************)
\* Path::exists
exists(p) == p \in dirs \/ p \in DOMAIN files \/ p \in DOMAIN docs

\* Path::is_dir
is_dir(p) == p \in dirs

\* The entries std::fs::read_dir(p) yields.
dir_entries(p) == {q \in dirs \cup DOMAIN files \cup DOMAIN docs : parent(q) = p}

\* std::fs::create_dir_all(p) on the directories d: the possible outcomes.  It
\* creates the missing ancestors topmost first and may fail at any of them; a
\* plain file in the way always fails it.
create_dir_all(d, p) ==
    LET anc == ancestors(p)
        missing == SelectSeq(anc, LAMBDA a : a \notin d)
        blocked == \E i \in 1..Len(anc) : anc[i] \in DOMAIN files \cup DOMAIN docs
    IN  IF blocked THEN {[ok |-> FALSE, dirs |-> d]}
        ELSE {[ok |-> (k = Len(missing)),
               dirs |-> d \cup {missing[i] : i \in 1..k}] : k \in 0..Len(missing)}

\* files with the content c written at path p.
write_file(f, p, c) == [q \in DOMAIN f \cup {p} |-> IF q = p THEN c ELSE f[q]]

\* std::fs::copy(from, to): the possible outcomes.  A failed copy leaves the
\* destination as it was or truncated.
copy_file(from, to) ==
    IF to \in dirs \/ parent(to) \notin dirs
    THEN {[ok |-> FALSE, files |-> files]}
    ELSE {[ok |-> TRUE, files |-> write_file(files, to, files[from])],
          [ok |-> FALSE, files |-> files],
          [ok |-> FALSE, files |-> write_file(files, to, "")]}

\* The directory p and everything below it.
tree(p) == {q \in dirs \cup DOMAIN files : q = p \/ below(p, q)}

\* std::fs::remove_dir_all(p): the possible outcomes.  A failed removal has
\* removed some entries, a directory only after everything below it.
remove_dir_all(p) ==
    LET without(R) == [ok |-> (p \in R),
                       dirs |-> dirs \ R,
                       files |-> [q \in DOMAIN files \ R |-> files[q]]]
        closed(R) == \A q \in R : \A x \in tree(p) : below(q, x) => x \in R
    IN  {without(R) : R \in {S \in SUBSET tree(p) : closed(S)}}

(***************************************************************************)
(* The paths of an instance and the values launch returns.                 *)
(***************************************************************************)
\* get_instance_dir: launcher_dir.join("instances")
instances_dir == join(launcher_dir, "instances")

\* get_instance_dir: instances_dir.join(instance_name)
instance_dir == join(instances_dir, instance_name)

\* launch: instance_dir.join(".minecraft")
minecraft_dir == join(instance_dir, ".minecraft")

\* get_arguments: instance_dir.join("assets")
old_assets_path == join(instance_dir, "assets")

\* get_arguments: get_launcher_dir().join("assets").join(&version_json.assetIndex.id)
assets_path_of(vj) == join(join(launcher_dir, "assets"), vj.assetIndex.id)

Running == [kind |-> "Running", err |-> "", path |-> ""]
Ok == [kind |-> "Ok", err |-> "", path |-> ""]
Err(e, p) == [kind |-> "Err", err |-> e, path |-> p]
Panic == [kind |-> "Panic", err |-> "unwrap on None", path |-> ""]

CLASSPATH_SEPARATOR == ":"

(***************************************************************************)
(* get_arguments: the template and its expansion.                          *)
(***************************************************************************)
\* The strings of a JSON array: filter_map(|arg| arg.as_str()).
RECURSIVE as_strs(_)
as_strs(game) ==
    IF game = <<>> THEN <<>>
    ELSE IF Head(game).str THEN <<Head(game).v>> \o as_strs(Tail(game))
    ELSE as_strs(Tail(game))

\* get_arguments, the first statement: the unexpanded arguments, or None when
\* the version JSON has neither form.
initial_arguments(vj) ==
    IF vj.minecraftArguments.some THEN Some(split_space(vj.minecraftArguments.v))
    ELSE IF vj.arguments.some THEN Some(as_strs(vj.arguments.v.game))
    ELSE None

\* The loop body of get_arguments up to the game directory.
expand_head(argument, user, id, mc_dir) ==
    replace_var(
        replace_var(replace_var(argument, "auth_player_name", user), "version_name", id),
        "game_directory", mc_dir)

\* The loop body of get_arguments from the assets root on.
expand_tail(argument, assets, asset_id) ==
    LET a1 == replace_var(argument, "assets_root", assets)
        a2 == replace_var(a1, "game_assets", assets)
        a3 == replace_var(a2, "auth_xuid", "0")
        a4 == replace_var(a3, "auth_uuid", "00000000-0000-0000-0000-000000000000")
        a5 == replace_var(a4, "auth_access_token", "0")
        a6 == replace_var(a5, "clientid", "0")
        a7 == replace_var(a6, "user_type", "legacy")
        a8 == replace_var(a7, "version_type", "release")
        a9 == replace_var(a8, "assets_index_name", asset_id)
    IN  replace_var(a9, "user_properties", "{}")

(***************************************************************************)
(* get_class_path.                                                         *)
(***************************************************************************)
\* A mutant of library_on_disk: the artifact is taken whether it exists or not.
library_assumed_on_disk(library_path) == TRUE

\* get_class_path: if library_path.exists()
library_on_disk(library_path) == exists(library_path)

\* get_class_path, the first loop: the base version's libraries with a Normal
\* download whose artifact exists; the first path without a string form ends
\* the loop with PathBufToString.
RECURSIVE base_class_path(_, _, _)
base_class_path(libraries, dir, acc) ==
    IF libraries = <<>> THEN [kind |-> "Ok", v |-> acc]
    ELSE LET n == Head(libraries)
             library_path == join(join(dir, "libraries"), n.path)
         IN  IF n.downloads # "Normal"
             THEN base_class_path(Tail(libraries), dir, acc)
             ELSE IF ~library_on_disk(library_path)
             THEN base_class_path(Tail(libraries), dir, acc)
             ELSE IF ~to_str(library_path).some
             THEN [kind |-> "Err", v |-> library_path]
             ELSE base_class_path(Tail(libraries), dir,
                      acc \o to_str(library_path).v \o CLASSPATH_SEPARATOR)

\* json_fabric::Library::get_path: the artifact's path below libraries.
get_path(library) == library.path

\* get_class_path, the second loop: the mod loader's libraries, none skipped;
\* library_path.to_str().unwrap() panics on a path without a string form.
RECURSIVE fabric_class_path(_, _, _)
fabric_class_path(libraries, dir, acc) ==
    IF libraries = <<>> THEN [kind |-> "Ok", v |-> acc]
    ELSE LET library_path == join(join(dir, "libraries"), get_path(Head(libraries)))
         IN  IF ~to_str(library_path).some
             THEN [kind |-> "Panic", v |-> library_path]
             ELSE fabric_class_path(Tail(libraries), dir,
                      acc \o to_str(library_path).v \o CLASSPATH_SEPARATOR)

\* get_class_path: [kind, v], v being the class path (Ok) or the path that has
\* no string form (Err: PathBufToString; Panic: the unwrap).
get_class_path(vj, dir, fj) ==
    LET base == base_class_path(vj.libraries, dir, "")
        fab == IF fj.some /\ base.kind = "Ok"
               THEN fabric_class_path(fj.v.libraries, dir, base.v)
               ELSE base
        jar_path == join(join(join(join(dir, ".minecraft"), "versions"), vj.id),
                         vj.id \o ".jar")
    IN  IF fab.kind # "Ok" THEN fab
        ELSE IF ~to_str(jar_path).some THEN [kind |-> "Err", v |-> jar_path]
        ELSE [kind |-> "Ok", v |-> fab.v \o to_str(jar_path).v]

(***************************************************************************)
(* The Java arguments.                                                     *)
(***************************************************************************)
\* InstanceConfigJson::get_ram_argument
get_ram_argument(config) == "-Xmx" \o config.ram_in_mb \o "M"

\* launch: the legacy network flag is added for these version types.
is_legacy_type(type) == type = "old_beta" \/ type = "old_alpha"

\* A mutant of natives_str: the conversion is lossy (to_string_lossy) and
\* never fails.
natives_str_lossy(natives_path) == Some(natives_path)

\* launch: natives_path.to_str().ok_or(PathBufToString(natives_path))
natives_str(natives_path) == to_str(natives_path)

\* setup_fabric: if config_json.mod_type == "Fabric"
wants_fabric(config) == config.mod_type = "Fabric"

\* A mutant of main_class: always the base version's main class.
main_class_of_version(vj, fj) == vj.mainClass

\* setup_classpath_and_mainclass: the mod loader's main class if there is one.
main_class(vj, fj) == IF fj.some THEN fj.v.mainClass ELSE vj.mainClass

\* A mutant of instance_found: the instance directory is not looked for.
instance_assumed_found(dir) == TRUE

\* get_instance_dir: instance_dir.exists()
instance_found(dir) == exists(dir)

\* A mutant of on_copy_error: the failure of the copy is dropped.
on_copy_error_ignored == "remove"

\* migrate_to_new_assets_path: copy_dir_recursive(..)? returns on a failure.
on_copy_error == "returned"

\* A mutant of dest_path: the entry's name is dropped.
dest_path_flat(src, dst, entry) == join(dst, "entry")

\* copy_dir_recursive: dst.join(entry.file_name())
dest_path(src, dst, entry) == join(dst, relative(src, entry))

(***************************************************************************)
(* Reading the JSON documents.                                             *)
(***************************************************************************)
\* read_to_string followed by serde_json::from_str, as get_config,
\* read_version_json and get_fabric_json do: [kind, v].
read_json(p) ==
    IF p \notin DOMAIN docs THEN [kind |-> "IoError", v |-> None]
    ELSE IF ~docs[p].ok THEN [kind |-> "SerdeError", v |-> None]
    ELSE [kind |-> "Ok", v |-> docs[p].v]

\* get_java: the Java executable for the version's javaVersion, Java 8 when the
\* version JSON names none.
java_program(vj) ==
    IF vj.javaVersion.some THEN "java-" \o vj.javaVersion.v ELSE "java-8"

\* LauncherError's Display, as launch_wrapped's err.to_string() uses it.
to_string(r) == r.err \o ": " \o r.path

(***************************************************************************)
(* launch_wrapped and launch, step by step.                                *)
(***************************************************************************)
\* launch_wrapped is called: launch begins with fresh locals.
LaunchWrapped ==
    /\ pc = "idle"
    /\ launches < MaxLaunches
    /\ launches' = launches + 1
    /\ pc' = "launch"
    /\ result' = Running
    /\ config_json' = None
    /\ version_json' = None
    /\ fabric_json' = None
    /\ game_arguments' = <<>>
    /\ arg_i' = 0
    /\ java_arguments' = <<>>
    /\ copy_stack' = <<>>
    /\ child' = None
    /\ start' = [dirs |-> dirs, files |-> files]
    /\ migrated' = FALSE
    /\ fs_accessed' = FALSE
    /\ copy_ok' = FALSE
    /\ UNCHANGED <<username, instance_name, launcher_dir, docs, orig_legacy, past,
                   dirs, files, wrapped>>

\* launch: the check of the username.
Launch ==
    /\ pc = "launch"
    /\ IF contains(username, " ") \/ username = ""
       THEN /\ pc' = "returned"
            /\ result' = Err("UsernameIsInvalid", username)
       ELSE /\ pc' = "get_instance_dir"
            /\ UNCHANGED result
    /\ UNCHANGED <<inputs, dirs, files, config_json, version_json, fabric_json,
                   game_arguments, arg_i, java_arguments, copy_stack, wrapped, child,
                   start, copy_ok, migrated, fs_accessed>>

\* get_instance_dir, the whole function.
GetInstanceDir ==
    /\ pc = "get_instance_dir"
    /\ IF instance_name = ""
       THEN /\ pc' = "returned"
            /\ result' = Err("InstanceNotFound", "")
            /\ UNCHANGED <<dirs, fs_accessed>>
       ELSE \E o1 \in create_dir_all(dirs, launcher_dir) :
            \E o2 \in (IF o1.ok THEN create_dir_all(o1.dirs, instances_dir) ELSE {o1}) :
               /\ dirs' = o2.dirs
               /\ fs_accessed' = TRUE
               /\ result' = IF ~o1.ok THEN Err("IoError", launcher_dir)
                            ELSE IF ~o2.ok THEN Err("IoError", instances_dir)
                            ELSE IF ~instance_found(instance_dir)
                            THEN Err("InstanceNotFound", "")
                            ELSE result
               /\ pc' = IF o2.ok /\ instance_found(instance_dir)
                        THEN "create_minecraft_dir" ELSE "returned"
    /\ UNCHANGED <<inputs, files, config_json, version_json, fabric_json,
                   game_arguments, arg_i, java_arguments, copy_stack, wrapped, child,
                   start, copy_ok, migrated>>

\* launch: create_dir_all(&minecraft_dir)
CreateMinecraftDir ==
    /\ pc = "create_minecraft_dir"
    /\ \E o \in create_dir_all(dirs, minecraft_dir) :
          /\ dirs' = o.dirs
          /\ pc' = IF o.ok THEN "get_config" ELSE "returned"
          /\ result' = IF o.ok THEN result ELSE Err("IoError", minecraft_dir)
    /\ fs_accessed' = TRUE
    /\ UNCHANGED <<inputs, files, config_json, version_json, fabric_json,
                   game_arguments, arg_i, java_arguments, copy_stack, wrapped, child,
                   start, copy_ok, migrated>>

\* launch: get_config(&instance_dir)?
GetConfig ==
    /\ pc = "get_config"
    /\ LET file_path == join(instance_dir, "config.json")
           r == read_json(file_path)
       IN  /\ pc' = IF r.kind = "Ok" THEN "read_version_json" ELSE "returned"
           /\ result' = IF r.kind = "Ok" THEN result ELSE Err(r.kind, file_path)
           /\ config_json' = r.v
    /\ fs_accessed' = TRUE
    /\ UNCHANGED <<inputs, dirs, files, version_json, fabric_json, game_arguments,
                   arg_i, java_arguments, copy_stack, wrapped, child, start, copy_ok,
                   migrated>>

\* launch: read_version_json(&instance_dir)?
ReadVersionJson ==
    /\ pc = "read_version_json"
    /\ LET file_path == join(instance_dir, "details.json")
           r == read_json(file_path)
       IN  /\ pc' = IF r.kind = "Ok" THEN "get_arguments" ELSE "returned"
           /\ result' = IF r.kind = "Ok" THEN result ELSE Err(r.kind, file_path)
           /\ version_json' = r.v
    /\ UNCHANGED <<inputs, dirs, files, config_json, fabric_json, game_arguments,
                   arg_i, java_arguments, copy_stack, wrapped, child, start, copy_ok,
                   migrated, fs_accessed>>

\* get_arguments: the unexpanded arguments; the loop runs once per argument.
GetArguments ==
    /\ pc = "get_arguments"
    /\ LET a == initial_arguments(version_json)
       IN  /\ pc' = IF ~a.some THEN "returned"
                    ELSE IF a.v = <<>> THEN "java_arguments"
                    ELSE "argument_head"
           /\ result' = IF a.some THEN result
                        ELSE Err("VersionJsonNoArgumentsField", "")
           /\ game_arguments' = IF a.some THEN a.v ELSE <<>>
           /\ arg_i' = 1
    /\ UNCHANGED <<inputs, dirs, files, config_json, version_json, fabric_json,
                   java_arguments, copy_stack, wrapped, child, start, copy_ok,
                   migrated, fs_accessed>>

\* get_arguments, the loop body up to the test of old_assets_path.exists().
ArgumentHead ==
    /\ pc = "argument_head"
    /\ LET mc == to_str(minecraft_dir)
           goes == IF ~mc.some THEN "returned"
                   ELSE IF exists(old_assets_path) THEN "copy"
                   ELSE "argument_tail"
       IN  /\ pc' = goes
           /\ result' = IF mc.some THEN result
                        ELSE Err("PathBufToString", minecraft_dir)
           /\ game_arguments' =
                 IF mc.some
                 THEN [game_arguments EXCEPT
                          ![arg_i] = expand_head(game_arguments[arg_i], username,
                                                 version_json.id, mc.v)]
                 ELSE game_arguments
           /\ copy_stack' =
                 IF goes = "copy"
                 THEN <<[src |-> old_assets_path, dst |-> assets_path_of(version_json),
                         entered |-> FALSE, todo |-> {}]>>
                 ELSE <<>>
           /\ fs_accessed' = (fs_accessed \/ mc.some)
    /\ UNCHANGED <<inputs, dirs, files, config_json, version_json, fabric_json, arg_i,
                   java_arguments, wrapped, child, start, copy_ok, migrated>>

(***************************************************************************)
(* migrate_to_new_assets_path and copy_dir_recursive.  copy_stack holds    *)
(* one frame per call of copy_dir_recursive that has not returned.         *)
(***************************************************************************)
top == copy_stack[Len(copy_stack)]

but_top == SubSeq(copy_stack, 1, Len(copy_stack) - 1)

\* copy_dir_recursive: the destination is created when it does not exist and
\* the source directory is read.
CopyEnter ==
    /\ pc = "copy"
    /\ ~top.entered
    /\ \E o \in (IF exists(top.dst) THEN {[ok |-> TRUE, dirs |-> dirs]}
                 ELSE create_dir_all(dirs, top.dst)) :
       \E read_ok \in (IF o.ok THEN BOOLEAN ELSE {FALSE}) :
          /\ dirs' = o.dirs
          /\ IF read_ok
             THEN /\ copy_stack' = Append(but_top,
                          [top EXCEPT !.entered = TRUE, !.todo = dir_entries(top.src)])
                  /\ UNCHANGED <<pc, result>>
             ELSE /\ copy_stack' = <<>>
                  /\ pc' = on_copy_error
                  /\ result' = IF on_copy_error = "returned"
                               THEN Err("IoError", IF o.ok THEN top.src ELSE top.dst)
                               ELSE result
    /\ UNCHANGED <<inputs, files, config_json, version_json, fabric_json,
                   game_arguments, arg_i, java_arguments, wrapped, child, start,
                   copy_ok, migrated, fs_accessed>>

\* copy_dir_recursive, the loop body for one entry, in the order read_dir
\* yields them: a directory is entered, a file is copied.
CopyEntry ==
    /\ pc = "copy"
    /\ top.entered
    /\ \E path \in top.todo :
       \E entry_ok \in BOOLEAN :
          LET dest == dest_path(top.src, top.dst, path)
              rest == [top EXCEPT !.todo = @ \ {path}]
          IN  \E o \in (IF entry_ok /\ ~is_dir(path) THEN copy_file(path, dest)
                        ELSE {[ok |-> entry_ok, files |-> files]}) :
                 /\ files' = o.files
                 /\ IF o.ok
                    THEN /\ copy_stack' =
                               IF is_dir(path)
                               THEN Append(Append(but_top, rest),
                                           [src |-> path, dst |-> dest,
                                            entered |-> FALSE, todo |-> {}])
                               ELSE Append(but_top, rest)
                         /\ UNCHANGED <<pc, result>>
                    ELSE /\ copy_stack' = <<>>
                         /\ pc' = on_copy_error
                         /\ result' = IF on_copy_error = "returned"
                                      THEN Err("IoError", IF entry_ok THEN path ELSE top.src)
                                      ELSE result
    /\ UNCHANGED <<inputs, dirs, config_json, version_json, fabric_json,
                   game_arguments, arg_i, java_arguments, wrapped, child, start,
                   copy_ok, migrated, fs_accessed>>

\* copy_dir_recursive returns Ok(()) once the entries are done; the outermost
\* call returns into migrate_to_new_assets_path.
CopyReturn ==
    /\ pc = "copy"
    /\ top.entered
    /\ top.todo = {}
    /\ copy_stack' = but_top
    /\ pc' = IF Len(copy_stack) = 1 THEN "remove" ELSE pc
    /\ copy_ok' = (copy_ok \/ Len(copy_stack) = 1)
    /\ UNCHANGED <<inputs, dirs, files, config_json, version_json, fabric_json,
                   game_arguments, arg_i, java_arguments, result, wrapped, child,
                   start, migrated, fs_accessed>>

\* migrate_to_new_assets_path: remove_dir_all(old_assets_path), then Ok(()).
RemoveOldAssets ==
    /\ pc = "remove"
    /\ \E o \in remove_dir_all(old_assets_path) :
          /\ dirs' = o.dirs
          /\ files' = o.files
          /\ pc' = IF o.ok THEN "argument_tail" ELSE "returned"
          /\ result' = IF o.ok THEN result ELSE Err("IoError", old_assets_path)
          /\ migrated' = o.ok
    /\ UNCHANGED <<inputs, config_json, version_json, fabric_json, game_arguments,
                   arg_i, java_arguments, copy_stack, wrapped, child, start, copy_ok,
                   fs_accessed>>

\* get_arguments, the loop body from assets_path.to_str() on, and the step to
\* the next argument.
ArgumentTail ==
    /\ pc = "argument_tail"
    /\ LET assets == to_str(assets_path_of(version_json))
       IN  /\ pc' = IF ~assets.some THEN "returned"
                    ELSE IF arg_i = Len(game_arguments) THEN "java_arguments"
                    ELSE "argument_head"
           /\ result' = IF assets.some THEN result
                        ELSE Err("PathBufToString", assets_path_of(version_json))
           /\ game_arguments' =
                 IF assets.some
                 THEN [game_arguments EXCEPT
                          ![arg_i] = expand_tail(game_arguments[arg_i], assets.v,
                                                 version_json.assetIndex.id)]
                 ELSE game_arguments
           /\ arg_i' = IF assets.some THEN arg_i + 1 ELSE arg_i
    /\ UNCHANGED <<inputs, dirs, files, config_json, version_json, fabric_json,
                   java_arguments, copy_stack, wrapped, child, start, copy_ok,
                   migrated, fs_accessed>>

(***************************************************************************)
(* launch: the Java arguments, the class path, the process.                *)
(***************************************************************************)
\* launch: let mut java_arguments = vec![..] and the legacy network flag.
JavaArguments ==
    /\ pc = "java_arguments"
    /\ LET natives_path == join(join(instance_dir, "libraries"), "natives")
           natives == natives_str(natives_path)
       IN  /\ pc' = IF natives.some THEN "setup_fabric" ELSE "returned"
           /\ result' = IF natives.some THEN result
                        ELSE Err("PathBufToString", natives_path)
           /\ java_arguments' =
                 IF ~natives.some THEN <<>>
                 ELSE <<"-Xss1M",
                        "-Dminecraft.launcher.brand=minecraft-launcher",
                        "-Dminecraft.launcher.version=2.1.1349",
                        "-Djava.library.path=" \o natives.v,
                        get_ram_argument(config_json)>>
                      \o (IF is_legacy_type(version_json.type)
                          THEN <<"-Dhttp.proxyHost=betacraft.uk">> ELSE <<>>)
    /\ UNCHANGED <<inputs, dirs, files, config_json, version_json, fabric_json,
                   game_arguments, arg_i, copy_stack, wrapped, child, start, copy_ok,
                   migrated, fs_accessed>>

\* setup_fabric, with get_fabric_json.
SetupFabric ==
    /\ pc = "setup_fabric"
    /\ LET json_path == join(instance_dir, "fabric.json")
           r == IF wants_fabric(config_json) THEN read_json(json_path)
                ELSE [kind |-> "Ok", v |-> None]
       IN  /\ pc' = IF r.kind = "Ok" THEN "setup_logging" ELSE "returned"
           /\ result' = IF r.kind = "Ok" THEN result ELSE Err(r.kind, json_path)
           /\ fabric_json' = IF r.kind = "Ok" /\ wants_fabric(config_json)
                             THEN Some(r.v) ELSE None
           /\ java_arguments' = IF r.kind = "Ok" /\ wants_fabric(config_json)
                                THEN java_arguments \o r.v.arguments.jvm
                                ELSE java_arguments
    /\ UNCHANGED <<inputs, dirs, files, config_json, version_json, game_arguments,
                   arg_i, copy_stack, wrapped, child, start, copy_ok, migrated,
                   fs_accessed>>

\* setup_logging
SetupLogging ==
    /\ pc = "setup_logging"
    /\ LET logging == version_json.logging
           logging_path ==
               IF logging.some THEN join(instance_dir, "logging-" \o logging.v.client.file.id)
               ELSE ""
           str == to_str(logging_path)
       IN  /\ pc' = IF str.some THEN "setup_classpath" ELSE "returned"
           /\ result' = IF str.some THEN result
                        ELSE Err("PathBufToString", logging_path)
           /\ java_arguments' =
                 IF logging.some /\ str.some
                 THEN Append(java_arguments,
                             "-Dlog4j.configurationFile=\"" \o str.v \o "\"")
                 ELSE java_arguments
    /\ UNCHANGED <<inputs, dirs, files, config_json, version_json, fabric_json,
                   game_arguments, arg_i, copy_stack, wrapped, child, start, copy_ok,
                   migrated, fs_accessed>>

\* setup_classpath_and_mainclass, with get_class_path.
SetupClasspathAndMainclass ==
    /\ pc = "setup_classpath"
    /\ LET cp == get_class_path(version_json, instance_dir, fabric_json)
       IN  /\ pc' = IF cp.kind = "Ok" THEN "spawn"
                    ELSE IF cp.kind = "Err" THEN "returned"
                    ELSE "panicked"
           /\ result' = IF cp.kind = "Ok" THEN result
                        ELSE IF cp.kind = "Err" THEN Err("PathBufToString", cp.v)
                        ELSE Panic
           /\ java_arguments' =
                 IF cp.kind = "Ok"
                 THEN java_arguments
                        \o <<"-cp", cp.v, main_class(version_json, fabric_json)>>
                 ELSE Append(java_arguments, "-cp")
    /\ UNCHANGED <<inputs, dirs, files, config_json, version_json, fabric_json,
                   game_arguments, arg_i, copy_stack, wrapped, child, start, copy_ok,
                   migrated, fs_accessed>>

\* launch: the Java executable (the override, or get_java, which may fail),
\* then command.spawn(), which may fail.
Spawn ==
    /\ pc = "spawn"
    /\ \E java_ok \in (IF config_json.java_override.some THEN {TRUE} ELSE BOOLEAN) :
       \E spawn_ok \in (IF java_ok THEN BOOLEAN ELSE {FALSE}) :
          LET program == IF config_json.java_override.some
                         THEN config_json.java_override.v
                         ELSE java_program(version_json)
          IN  /\ pc' = "returned"
              /\ result' = IF ~java_ok THEN Err("JavaInstallError", "")
                           ELSE IF ~spawn_ok THEN Err("CommandError", program)
                           ELSE Ok
              /\ child' = IF spawn_ok
                          THEN Some([program |-> program,
                                     args |-> java_arguments \o game_arguments])
                          ELSE None
    /\ UNCHANGED <<inputs, dirs, files, config_json, version_json, fabric_json,
                   game_arguments, arg_i, java_arguments, copy_stack, wrapped, start,
                   copy_ok, migrated, fs_accessed>>

\* launch_wrapped: the match on what launch returned.
LaunchWrappedReturn ==
    /\ pc = "returned"
    /\ pc' = "idle"
    /\ wrapped' = IF result.kind = "Ok" THEN [ok |-> TRUE, msg |-> ""]
                  ELSE [ok |-> FALSE, msg |-> to_string(result)]
    /\ past' = Append(past, java_arguments)
    /\ UNCHANGED <<username, instance_name, launcher_dir, docs, orig_legacy,
                   launches, dirs, files, config_json, version_json, fabric_json,
                   game_arguments, arg_i, java_arguments, copy_stack, result, child,
                   start, copy_ok, migrated, fs_accessed>>

Next ==
    \/ LaunchWrapped
    \/ Launch
    \/ GetInstanceDir
    \/ CreateMinecraftDir
    \/ GetConfig
    \/ ReadVersionJson
    \/ GetArguments
    \/ ArgumentHead
    \/ CopyEnter
    \/ CopyEntry
    \/ CopyReturn
    \/ RemoveOldAssets
    \/ ArgumentTail
    \/ JavaArguments
    \/ SetupFabric
    \/ SetupLogging
    \/ SetupClasspathAndMainclass
    \/ Spawn
    \/ LaunchWrappedReturn

(***************************************************************************)
(* The initial states: a launcher directory, its instances and their       *)
(* documents, described by a scenario record.                              *)
(***************************************************************************)
\* The set of the elements of a sequence.
Range(seq) == {seq[i] : i \in 1..Len(seq)}

\* The directories that must exist for the paths to exist.
DirsAbove(paths) == UNION {Range(ancestors(parent(q))) : q \in paths}

\* The instances that exist on disk in an installed launcher.
RealInstances == {"Test1.20"}

\* The base version's libraries: present, declared but missing, natives only,
\* without downloads, present.
Libraries ==
    <<[downloads |-> "Normal", path |-> "a/a.jar"],
      [downloads |-> "Normal", path |-> "b/b.jar"],
      [downloads |-> "Native", path |-> "n/n.jar"],
      [downloads |-> "None", path |-> "o/o.jar"],
      [downloads |-> "Normal", path |-> "c/c.jar"]>>

\* The library files on disk, below an instance's libraries directory: those
\* that were downloaded, or none yet.
LibraryFiles(s) ==
    IF s.libs = "none" THEN {} ELSE {"a/a.jar", "n/n.jar", "o/o.jar", "c/c.jar"}

\* The argument templates of the version JSON: <<minecraftArguments, arguments>>.
Str(x) == [str |-> TRUE, v |-> x]
Obj == [str |-> FALSE]
Forms ==
    <<
      <<Some("--username ${auth_player_name} --version ${version_name}"), None>>,
      <<None, Some([game |-> <<Str("--gameDir"), Str("${game_directory}"), Obj,
                               Str("--assetsDir"), Str("${assets_root}")>>])>>,
      <<None, None>>,
      <<None, Some([game |-> <<Obj>>])>>,
      <<None,
        Some([game |-> <<Str("${auth_player_name}:${version_name}:${game_directory}"),
                         Str("${assets_root}:${game_assets}:${auth_xuid}:${auth_uuid}"),
                         Str("${auth_access_token}:${clientid}:${user_type}"),
                         Str("${version_type}:${assets_index_name}:${user_properties}")>>])>>,
      <<Some("${version_name}-${version_name}  ${resolution_width}"), None>>,
      <<Some("${auth_${version_name}_name} $${version_name}"), None>>,
      <<Some("--userType ${user_type} ${auth_player_name}${auth_player_name}"), None>>,
      <<None, Some([game |-> <<Str("${auth_player_name}")>>])>>
    >>

VersionJson(s) ==
    [id |-> s.vid,
     type |-> s.vtype,
     mainClass |-> "net.minecraft.client.main.Main",
     libraries |-> Libraries,
     minecraftArguments |-> Forms[s.form][1],
     arguments |-> Forms[s.form][2],
     assetIndex |-> [id |-> "17"],
     logging |-> IF s.logging THEN Some([client |-> [file |-> [id |-> "client.xml"]]])
                 ELSE None,
     javaVersion |-> IF s.logging THEN Some("17") ELSE None]

ConfigJson(s) ==
    [mod_type |-> s.mod,
     java_override |-> IF s.jo THEN Some("/usr/bin/java") ELSE None,
     ram_in_mb |-> "2048"]

FabricJson(s) ==
    [mainClass |-> "net.fabricmc.loader.impl.launch.knot.KnotClient",
     arguments |-> [jvm |-> <<"-DFabricMcEmu=1", "-Dfabric.side=client">>],
     libraries |-> <<[path |-> "f/loader.jar"], [path |-> "f/asm.jar"]>>]

\* The legacy asset files of an instance, below its assets directory.
LegacyFiles ==
    <<[x \in {} |-> ""],
      [x \in {"a"} |-> "1"],
      [x \in {"a", "d/b"} |-> IF x = "a" THEN "1" ELSE "2"],
      [x \in {"d/b", "d/e/c"} |-> IF x = "d/b" THEN "2" ELSE "3"]>>

\* The files already in the shared asset store, below assets/<id>: none, a
\* stale copy, a plain file where a directory is to go.
StoreFiles ==
    <<[x \in {} |-> ""],
      [x \in {"a"} |-> "stale"],
      [x \in {"d"} |-> "plain"]>>

InitDocs(s) ==
    LET at(n, name) == join(join(join(s.ldir, "instances"), n), name)
        paths == {at(n, "config.json") : n \in IF s.cfg = "absent" THEN {} ELSE RealInstances}
                 \cup {at(n, "details.json") :
                          n \in IF s.det = "absent" THEN {} ELSE RealInstances}
                 \cup {at(n, "fabric.json") :
                          n \in IF s.fab = "absent" THEN {} ELSE RealInstances}
        doc(q) == IF contains(q, "config.json")
                  THEN [ok |-> (s.cfg = "ok"), v |-> ConfigJson(s)]
                  ELSE IF contains(q, "details.json")
                  THEN [ok |-> (s.det = "ok"), v |-> VersionJson(s)]
                  ELSE [ok |-> (s.fab # "bad"), v |-> FabricJson(s)]
    IN  IF s.installed THEN [q \in paths |-> doc(q)] ELSE [q \in {} |-> None]

InitFiles(s) ==
    LET inst(n) == join(join(s.ldir, "instances"), n)
        lib(n, l) == join(join(inst(n), "libraries"), l)
        jar(n) == join(join(join(join(inst(n), ".minecraft"), "versions"), s.vid),
                       s.vid \o ".jar")
        legacy(x) == join(join(inst("Test1.20"), "assets"), x)
        store(x) == join(join(join(s.ldir, "assets"), "17"), x)
        content == [q \in {lib(n, l) : n \in RealInstances, l \in LibraryFiles(s)}
                          \cup {jar(n) : n \in IF s.jar THEN RealInstances ELSE {}}
                          \cup {inst("Afile")}
                      |-> "bytes"]
        old == [q \in {legacy(x) : x \in DOMAIN LegacyFiles[s.legacy]}
                   |-> LegacyFiles[s.legacy][relative(join(inst("Test1.20"), "assets"), q)]]
        new == [q \in {store(x) : x \in DOMAIN StoreFiles[s.store]}
                   |-> StoreFiles[s.store][relative(join(join(s.ldir, "assets"), "17"), q)]]
    IN  IF s.installed THEN content @@ old @@ new ELSE [q \in {} |-> ""]

InitDirs(s) ==
    LET inst(n) == join(join(s.ldir, "instances"), n)
        made == {join(inst(n), "libraries") : n \in RealInstances}
                \cup (IF s.legacy > 1 \/ s.empty_legacy
                      THEN {join(inst("Test1.20"), "assets")} ELSE {})
    IN  IF s.installed
        THEN DirsAbove(DOMAIN InitFiles(s) \cup DOMAIN InitDocs(s))
               \cup UNION {Range(ancestors(d)) : d \in made}
        ELSE {}

Usernames == {"", "Steve", "St eve", "St\teve", "Steve\n", "${auth_player_name}",
              "${user_type}"}

InstanceNames == {"", "Test1.20", "Gone", "Afile"}

Default ==
    [user |-> "Steve", inst |-> "Test1.20", ldir |-> "/ql", installed |-> TRUE,
     mod |-> "Vanilla", fab |-> "absent", vtype |-> "release", logging |-> TRUE,
     form |-> 1, vid |-> "1.20", libs |-> "good", legacy |-> 1, store |-> 1,
     empty_legacy |-> FALSE, jo |-> TRUE, cfg |-> "ok", det |-> "ok", jar |-> TRUE]

\* Who launches what, on an installed or a fresh launcher.
EntryScenarios ==
    {[Default EXCEPT !.user = u, !.inst = i, !.installed = b] :
        u \in Usernames, i \in InstanceNames, b \in BOOLEAN}

\* The instance configuration, the mod loader and the version's type.
ConfigScenarios ==
    {[Default EXCEPT !.mod = m, !.fab = f, !.vtype = t, !.logging = l, !.jo = l] :
        m \in {"Vanilla", "Fabric", "Forge"},
        f \in {"absent", "bad", "ok"},
        t \in {"release", "old_beta", "old_alpha", "snapshot"},
        l \in BOOLEAN}

\* Unreadable and malformed documents, libraries and the main jar.
DocumentScenarios ==
    {[Default EXCEPT !.cfg = c, !.det = d, !.libs = l, !.jar = j, !.mod = m, !.fab = "ok"] :
        c \in {"ok", "bad", "absent"}, d \in {"ok", "bad", "absent"},
        l \in {"good", "none"}, j \in BOOLEAN, m \in {"Vanilla", "Fabric"}}

\* Templates, user names and version ids, some shaped like placeholders.
TemplateScenarios ==
    {[Default EXCEPT !.user = u, !.vid = v, !.form = f] :
        u \in {"Steve", "${auth_player_name}", "${user_type}", "{auth_uuid}"},
        v \in {"1.20", "player", "${auth_player_name}", "{auth_player_name}"},
        f \in 1..Len(Forms)}

\* Legacy asset directories and what the shared store already holds.
MigrationScenarios ==
    {[Default EXCEPT !.legacy = l, !.store = t, !.empty_legacy = e, !.form = f] :
        l \in 1..Len(LegacyFiles), t \in 1..Len(StoreFiles), e \in BOOLEAN,
        f \in {1, 4}}

\* A launcher directory without a native string form.
PathScenarios ==
    {[Default EXCEPT !.ldir = d, !.mod = m, !.fab = "ok", !.form = f, !.libs = l,
                     !.logging = g] :
        d \in {"/ql", "/q" \o BadByte}, m \in {"Vanilla", "Fabric"}, f \in {1, 4},
        l \in {"good", "none"}, g \in BOOLEAN}

Scenarios ==
    EntryScenarios \cup ConfigScenarios \cup DocumentScenarios
        \cup TemplateScenarios \cup MigrationScenarios \cup PathScenarios

Init ==
    \E s \in Scenarios :
        /\ pc = "idle"
        /\ launches = 0
        /\ username = s.user
        /\ instance_name = s.inst
        /\ launcher_dir = s.ldir
        /\ dirs = InitDirs(s)
        /\ files = InitFiles(s)
        /\ docs = InitDocs(s)
        /\ config_json = None
        /\ version_json = None
        /\ fabric_json = None
        /\ game_arguments = <<>>
        /\ arg_i = 0
        /\ java_arguments = <<>>
        /\ copy_stack = <<>>
        /\ result = Running
        /\ wrapped = [ok |-> FALSE, msg |-> ""]
        /\ child = None
        /\ start = [dirs |-> InitDirs(s), files |-> InitFiles(s)]
        /\ orig_legacy =
              LET old == join(join(join(s.ldir, "instances"), "Test1.20"), "assets")
              IN  [q \in {x \in DOMAIN InitFiles(s) : below(old, x)} |-> InitFiles(s)[q]]
        /\ copy_ok = FALSE
        /\ migrated = FALSE
        /\ fs_accessed = FALSE
        /\ past = <<>>

Spec == Init /\ [][Next]_vars

(***************************************************************************)
(* What the claims speak of.                                               *)
(***************************************************************************)
\* launch has returned to launch_wrapped.
Returned == pc = "returned"

\* The user name is empty or holds a whitespace character.
BlankOrSpaced(u) == u = "" \/ \E w \in {" ", "\t", "\n"} : contains(u, w)

\* The placeholders get_arguments knows, with the values they stand for.
Values ==
    [auth_player_name |-> username,
     version_name |-> version_json.id,
     game_directory |-> minecraft_dir,
     assets_root |-> assets_path_of(version_json),
     game_assets |-> assets_path_of(version_json),
     auth_xuid |-> "0",
     auth_uuid |-> "00000000-0000-0000-0000-000000000000",
     auth_access_token |-> "0",
     clientid |-> "0",
     user_type |-> "legacy",
     version_type |-> "release",
     assets_index_name |-> version_json.assetIndex.id,
     user_properties |-> "{}"]

Recognized == DOMAIN Values

Placeholder(n) == "${" \o n \o "}"

\* get_arguments has returned Ok: the arguments are expanded.
Expanded == pc = "java_arguments"

\* The arguments as the version JSON gives them, before any replacement.
Template == initial_arguments(version_json).v

\* Some recognized placeholder is left in an expanded argument.
PlaceholderLeft ==
    \E i \in 1..Len(game_arguments) :
        \E n \in Recognized : contains(game_arguments[i], Placeholder(n))

\* Every "$" of s begins a complete placeholder "${...}" with no "$", "{" or
\* "}" inside.
WellFormed(s) ==
    \A i \in 1..Len(s) :
        SubSeq(s, i, i) = "$" =>
            /\ i < Len(s)
            /\ SubSeq(s, i + 1, i + 1) = "{"
            /\ \E j \in (i + 2)..Len(s) :
                  /\ SubSeq(s, j, j) = "}"
                  /\ \A k \in (i + 2)..(j - 1) : SubSeq(s, k, k) \notin {"$", "{", "}"}

\* No value that is substituted holds a "$", and the template is well formed.
PlainValues ==
    /\ \A n \in Recognized : ~contains(Values[n], "$")
    /\ \A i \in 1..Len(Template) : WellFormed(Template[i])

\* C2 as originally stated: once the arguments are expanded for a user name
\* that is not empty and has no whitespace, no recognized placeholder is left
\* in any of them, whatever the user name and the version id look like.
C2_NoPlaceholderLeft ==
    Expanded /\ ~BlankOrSpaced(username) => ~PlaceholderLeft

\* C2, amended: once the arguments are expanded, no recognized placeholder is
\* left in any of them, provided that none of the substituted values (user
\* name, version id, game directory, asset path, asset index id) holds a "$"
\* and that every "$" of the template begins a complete ${name} placeholder.
C2_NoPlaceholderLeftOfPlainValues ==
    Expanded /\ ~BlankOrSpaced(username) /\ PlainValues => ~PlaceholderLeft

\* C2, the case: a well-formed template with recognized placeholders, one of
\* them twice in an argument, has been expanded with plain values.
C2_Witness ==
    /\ Expanded
    /\ ~BlankOrSpaced(username)
    /\ PlainValues
    /\ \E i \in 1..Len(Template) :
          contains(Template[i], "${auth_player_name}${auth_player_name}")
    /\ \E i \in 1..Len(Template) : contains(Template[i], Placeholder("user_type"))

\* The argument s with every recognized placeholder of s itself replaced by
\* its value, in one pass from the left: what is put in is not looked at again.
RECURSIVE expand_once(_)
expand_once(s) ==
    LET i == find_from(s, "${", 1)
        hits == {n \in Recognized :
                    /\ i + Len(Placeholder(n)) - 1 <= Len(s)
                    /\ SubSeq(s, i, i + Len(Placeholder(n)) - 1) = Placeholder(n)}
    IN  IF i = 0 THEN s
        ELSE IF hits = {}
        THEN SubSeq(s, 1, i + 1) \o expand_once(SubSeq(s, i + 2, Len(s)))
        ELSE LET n == CHOOSE n \in hits : TRUE
             IN  SubSeq(s, 1, i - 1) \o Values[n]
                   \o expand_once(SubSeq(s, i + Len(Placeholder(n)), Len(s)))

\* C3: every expanded argument is its template argument with each recognized
\* placeholder of the template replaced by its value exactly once; the text a
\* replacement puts in is never expanded by a later replacement.
C3_SubstitutedExactlyOnce ==
    Expanded =>
        \A i \in 1..Len(game_arguments) : game_arguments[i] = expand_once(Template[i])

\* C1: a user name that is empty or holds a whitespace character is refused
\* with UsernameIsInvalid before any access to the file system: nothing is
\* created, read, migrated or spawned.
C1_BlankUsernameRefusedBeforeIo ==
    Returned /\ BlankOrSpaced(username) =>
        /\ result = Err("UsernameIsInvalid", username)
        /\ ~fs_accessed
        /\ dirs = start.dirs
        /\ files = start.files
        /\ ~child.some

(***************************************************************************)
(* Asset migration.                                                        *)
(***************************************************************************)
\* The legacy asset directory of the instance that has one, and the shared
\* store its version's asset index names.
LegacyDir == join(join(instances_dir, "Test1.20"), "assets")

StoreDir == join(join(launcher_dir, "assets"), "17")

\* Where the legacy entry q belongs in the shared store.
StoreOf(q) == join(StoreDir, relative(LegacyDir, q))

\* The legacy file q is in the shared store.
InStore(q) == StoreOf(q) \in DOMAIN files

\* C4: the legacy asset tree is never deleted unless the recursive copy has
\* fully succeeded.  In every state, whatever I/O call fails, every file that
\* was in the legacy directory is still there or is at the same relative path
\* in the shared store, and remove_dir_all runs only after copy_dir_recursive
\* returned Ok.
C4_NoDeletionBeforeCopied ==
    /\ \A q \in DOMAIN orig_legacy : q \in DOMAIN files \/ InStore(q)
    /\ pc = "remove" => copy_ok
    /\ (\E q \in DOMAIN start.files : below(LegacyDir, q) /\ q \notin DOMAIN files)
          => copy_ok

\* C4, the case: the copy failed after it had copied a file, launch returned
\* the error, and the legacy tree is whole.
C4_Witness ==
    /\ Returned
    /\ result.err = "IoError"
    /\ ~copy_ok
    /\ Cardinality(DOMAIN orig_legacy) = 2
    /\ \E q \in DOMAIN orig_legacy : InStore(q) /\ files[StoreOf(q)] = orig_legacy[q]
    /\ \E q \in DOMAIN orig_legacy : ~InStore(q)
    /\ \A q \in DOMAIN orig_legacy : q \in DOMAIN files

\* C5: whenever a migration completes, the shared store holds every file and
\* subdirectory the legacy directory had when this launch began, and every
\* file it had initially, at the same relative path with the same content,
\* and the legacy directory is gone; so it is after a failed attempt too.
C5_MigrationComplete ==
    migrated =>
        /\ \A q \in DOMAIN start.files :
              below(LegacyDir, q) => InStore(q) /\ files[StoreOf(q)] = start.files[q]
        /\ \A d \in start.dirs : below(LegacyDir, d) => StoreOf(d) \in dirs
        /\ \A q \in DOMAIN orig_legacy :
              InStore(q) /\ files[StoreOf(q)] = orig_legacy[q]
        /\ StoreDir \in dirs
        /\ ~exists(LegacyDir)
        /\ \A q \in dirs \cup DOMAIN files : ~below(LegacyDir, q)

\* C5, the case: the first launch failed in the migration and left a copy of
\* some file in the store; the second launch has completed the migration.
C5_Witness ==
    /\ migrated
    /\ launches = 2
    /\ ~wrapped.ok
    /\ contains(wrapped.msg, "IoError")
    /\ Cardinality(DOMAIN orig_legacy) = 2
    /\ \E d \in start.dirs : below(LegacyDir, d)
    /\ \E q \in DOMAIN orig_legacy : StoreOf(q) \in DOMAIN start.files
    /\ \E q \in DOMAIN orig_legacy : q \in DOMAIN start.files

(***************************************************************************)
(* The class path and the Java arguments.                                  *)
(***************************************************************************)
\* The strings of a sequence, joined.
RECURSIVE Concat(_)
Concat(seq) == IF seq = <<>> THEN "" ELSE Head(seq) \o Concat(Tail(seq))

LibraryPath(n) == join(join(instance_dir, "libraries"), n.path)

MainJar ==
    join(join(join(minecraft_dir, "versions"), version_json.id),
         version_json.id \o ".jar")

\* The class path of the base version alone: each library with a Normal
\* download whose artifact is on disk, with a separator, then the main jar.
BaseClassPath ==
    LET listed == SelectSeq(version_json.libraries,
                            LAMBDA n : n.downloads = "Normal" /\ exists(LibraryPath(n)))
    IN  Concat([i \in 1..Len(listed) |-> LibraryPath(listed[i]) \o ":"]) \o MainJar

\* The Java arguments of a launch that got its class path end "-cp", the
\* class path, the main class.
HasClassPath(args) == Len(args) >= 3 /\ args[Len(args) - 2] = "-cp"

ClassPathOf(args) == args[Len(args) - 1]

\* C6: with no mod loader, the class path is the path of each base library
\* that has a Normal download and is on disk, in the listed order and each
\* followed by the separator, then the main jar path with no separator,
\* whether the jar exists or not; and an earlier launch got the same string.
C6_VanillaClassPath ==
    pc = "spawn" /\ ~fabric_json.some =>
        /\ HasClassPath(java_arguments)
        /\ ClassPathOf(java_arguments) = BaseClassPath
        /\ \A k \in 1..Len(past) :
              HasClassPath(past[k]) => ClassPathOf(past[k]) = ClassPathOf(java_arguments)

\* C6, the case: the second launch of an instance with no mod loader, with a
\* library that is declared but missing and without its main jar on disk.
C6_Witness ==
    /\ pc = "spawn"
    /\ ~fabric_json.some
    /\ Len(past) = 1
    /\ HasClassPath(past[1])
    /\ ~exists(MainJar)
    /\ \E i \in 1..Len(version_json.libraries) :
          /\ version_json.libraries[i].downloads = "Normal"
          /\ ~exists(LibraryPath(version_json.libraries[i]))
    /\ \E i \in 1..Len(version_json.libraries) :
          /\ version_json.libraries[i].downloads # "Normal"
          /\ exists(LibraryPath(version_json.libraries[i]))

\* The documents of the instance being launched, as they are on disk.
ConfigPath == join(instance_dir, "config.json")

DetailsPath == join(instance_dir, "details.json")

FabricPath == join(instance_dir, "fabric.json")

Readable(p) == p \in DOMAIN docs /\ docs[p].ok

\* The user name is one launch is meant to take.
ValidUser == ~BlankOrSpaced(username)

\* The instance has no directory when the launch begins.
NoInstance == instance_name = "" \/ instance_dir \notin start.dirs

\* What C8 says of the file system, whatever the error.
NothingOfTheInstanceMade ==
    /\ ~child.some
    /\ instance_dir \notin dirs
    /\ minecraft_dir \notin dirs
    /\ files = start.files
    /\ instance_name = "" => dirs = start.dirs
    /\ dirs \ start.dirs \subseteq {launcher_dir, instances_dir}

DeclaresModLoader == Readable(ConfigPath) /\ docs[ConfigPath].v.mod_type # "Vanilla"

DeclaresFabric == Readable(ConfigPath) /\ docs[ConfigPath].v.mod_type = "Fabric"

\* What C9 says of a launch whose mod loader is declared.
ModLoaderHonoured ==
    /\ ~Readable(FabricPath) => result.kind = "Err" /\ ~child.some
    /\ child.some =>
          /\ fabric_json.some
          /\ java_arguments[Len(java_arguments)] = docs[FabricPath].v.mainClass

\* C9: when the configuration declares a mod loader of any type, its metadata
\* file is loaded, a missing or unreadable file makes launch return an error
\* without a process, and the game never starts with the base version's main
\* class.
C9_AnyModLoaderHonoured ==
    Returned /\ DeclaresModLoader => ModLoaderHonoured

\* C7: nothing in the pipeline panics.  launch ends with the process or a
\* typed error; a PathBufToString error carries a path that has no string
\* form; and with a launcher directory that has no string form, a launch that
\* comes to convert a path returns that error and spawns nothing.
C7_NeverPanics ==
    /\ pc # "panicked"
    /\ result.kind \in {"Running", "Ok", "Err"}
    /\ result.err = "PathBufToString" => ~to_str(result.path).some
    /\ child.some => to_str(instance_dir).some /\ to_str(launcher_dir).some
    /\ (/\ Returned
        /\ ~to_str(launcher_dir).some
        /\ ValidUser
        /\ instance_dir \in start.dirs
        /\ Readable(ConfigPath)
        /\ Readable(DetailsPath)
        /\ initial_arguments(docs[DetailsPath].v).some)
          => result.err = "PathBufToString" /\ ~child.some

\* C7, the case: a Fabric instance with no game arguments, no library on disk
\* and no logging configuration, below a launcher directory that has no
\* string form: launch returned PathBufToString with the natives path.
C7_Witness ==
    /\ Returned
    /\ ~to_str(launcher_dir).some
    /\ DeclaresFabric
    /\ Readable(FabricPath)
    /\ game_arguments = <<>>
    /\ ~version_json.logging.some
    /\ \A i \in 1..Len(version_json.libraries) :
          ~exists(LibraryPath(version_json.libraries[i]))
    /\ result = Err("PathBufToString", join(join(instance_dir, "libraries"), "natives"))

\* The Java arguments in the order the Launch Composer fixes, from the
\* documents on disk.
ComposedJavaArguments ==
    LET cfg == docs[ConfigPath].v
        ver == docs[DetailsPath].v
        active == cfg.mod_type = "Fabric"
        fab == docs[FabricPath].v
    IN  <<"-Xss1M",
          "-Dminecraft.launcher.brand=minecraft-launcher",
          "-Dminecraft.launcher.version=2.1.1349",
          "-Djava.library.path=" \o join(join(instance_dir, "libraries"), "natives"),
          get_ram_argument(cfg)>>
        \o (IF ver.type \in {"old_beta", "old_alpha"}
            THEN <<"-Dhttp.proxyHost=betacraft.uk">> ELSE <<>>)
        \o (IF active THEN fab.arguments.jvm ELSE <<>>)
        \o (IF ver.logging.some
            THEN <<"-Dlog4j.configurationFile=\""
                     \o join(instance_dir, "logging-" \o ver.logging.v.client.file.id)
                     \o "\"">>
            ELSE <<>>)
        \o <<"-cp",
             get_class_path(ver, instance_dir, fabric_json).v,
             IF active THEN fab.mainClass ELSE ver.mainClass>>

\* C10: the Java arguments launch composes are, in this order, the stack
\* size, the two launcher flags, the natives path, the memory flag, the legacy
\* network flag exactly for old_beta and old_alpha, the mod loader's JVM
\* arguments exactly when a mod loader is active, the logging flag exactly
\* when the version declares one, then -cp, the class path and the main
\* class, which is the mod loader's when its metadata is present; the process
\* gets them followed by the game arguments.
C10_JavaArgumentOrder ==
    /\ pc = "spawn" => java_arguments = ComposedJavaArguments
    /\ child.some => child.v.args = ComposedJavaArguments \o game_arguments

\* C10, the case: a Fabric instance of an old_beta version with a logging
\* configuration has been spawned.
C10_Witness ==
    /\ child.some
    /\ fabric_json.some
    /\ version_json.type = "old_beta"
    /\ version_json.logging.some
    /\ Len(game_arguments) > 0
====
